---------------------------- MODULE Spec2Model ----------------------------
(***************************************************************************)
(* A model of Scripts/analyze_results.py: the metrics calculator           *)
(* (calculate_metrics), the persisted history store (load_metrics_history, *)
(* save_metrics_history, add_to_history) and the prompt-version comparator *)
(* (compare_prompt_versions).                                              *)
(*                                                                         *)
(* Python values are modelled as follows.                                  *)
(*   - a CSV row (dict of str) is a function from the field names it has   *)
(*     to strings; a field the row lacks is outside its DOMAIN;            *)
(*   - a float is an exact rational [num, den] in lowest terms, den > 0    *)
(*     (the ratios of the program are quotients of small integers);        *)
(*   - x.get(k) of a dict is Some(v) or None.                              *)
(***************************************************************************)
EXTENDS Integers, Sequences, FiniteSets

VARIABLES
    ENTITY_TYPES,   \* CONFIG["entity_types"], the configured label list
    results,        \* the rows handed to calculate_metrics (load_csv's result)
    metrics,        \* the document returned by calculate_metrics
    history_file,   \* content of METRICS_HISTORY_FILE (a list of records)
    writes,         \* number of times METRICS_HISTORY_FILE was rewritten
    outcome,        \* how the last add_to_history call ended
    appended,       \* run ids add_to_history has been called with so far
    history,        \* the history list handed to compare_prompt_versions
    comparison,     \* what compare_prompt_versions printed
    pc,             \* per invocation of add_to_history: where it stands
    call_metrics,   \* per invocation: the document it was called with
    loaded_history, \* per invocation: its local list "history"
    overlapped      \* whether an invocation loaded while another was under way

\* the local state of the invocations of add_to_history that share the file
procvars == <<pc, call_metrics, loaded_history, overlapped>>

vars == <<ENTITY_TYPES, results, metrics, history_file, writes, outcome,
          appended, history, comparison, procvars>>

\* the invocations (processes running main) that share METRICS_HISTORY_FILE
Procs == {"first", "second"}

\* no invocation is tracked step by step
NoCalls ==
    /\ pc = [p \in Procs |-> "idle"]
    /\ call_metrics = [p \in Procs |-> [pending |-> TRUE]]
    /\ loaded_history = [p \in Procs |-> <<>>]
    /\ overlapped = FALSE

-----------------------------------------------------------------------------
(* Python's None and dict.get *)

None == [some |-> FALSE]
Some(v) == [some |-> TRUE, v |-> v]

\* r.get(k, d) for a row or a document
Get(r, k, d) == IF k \in DOMAIN r THEN r[k] ELSE d

\* d.get(k): None when the key is missing
GetOpt(r, k) == IF k \in DOMAIN r THEN Some(r[k]) ELSE None

\* r with field k set to v
Ext(r, k, v) == [x \in DOMAIN r \cup {k} |-> IF x = k THEN v ELSE r[x]]

-----------------------------------------------------------------------------
(* Exact rationals standing for Python floats *)

RECURSIVE Gcd(_, _)
Gcd(a, b) == IF b = 0 THEN a ELSE Gcd(b, a % b)

Abs(x) == IF x < 0 THEN -x ELSE x

\* n / d, d > 0, in lowest terms
Frac(n, d) ==
    LET g == Gcd(Abs(n), d)
    IN  [num |-> n \div g, den |-> d \div g]

Zero == Frac(0, 1)
One == Frac(1, 1)
RAdd(a, b) == Frac(a.num * b.den + b.num * a.den, a.den * b.den)
RSub(a, b) == Frac(a.num * b.den - b.num * a.den, a.den * b.den)
RMul(a, b) == Frac(a.num * b.num, a.den * b.den)
\* a / b for b > 0
RDiv(a, b) == Frac(a.num * b.den, a.den * b.num)
RAbs(a) == [num |-> Abs(a.num), den |-> a.den]
RLe(a, b) == a.num * b.den <= b.num * a.den
RLt(a, b) == a.num * b.den < b.num * a.den

RECURSIVE RSum(_)
RSum(s) == IF s = <<>> THEN Zero ELSE RAdd(Head(s), RSum(Tail(s)))

-----------------------------------------------------------------------------
(* str.lower(), float(), str.isdigit()/int() on the strings of the model *)

\* str.lower()
Lower(s) ==
    CASE s = "Task" -> "task"
      [] s = "TASK" -> "task"
      [] s = "Event" -> "event"
      [] s = "Habit" -> "habit"
      [] s = "Unknown" -> "unknown"
      [] s = "True" -> "true"
      [] s = "TRUE" -> "true"
      [] s = "False" -> "false"
      [] OTHER -> s

\* the strings float() accepts, with their values
FloatText ==
    [t \in {"0", "0.2", "0.5", "0.6", "0.7", "0.85", "0.9", "0.95", "1.0",
            "10", "20", "30", "40", "50", "200"} |->
        CASE t = "0" -> Frac(0, 1)
          [] t = "0.2" -> Frac(1, 5)
          [] t = "0.5" -> Frac(1, 2)
          [] t = "0.6" -> Frac(3, 5)
          [] t = "0.7" -> Frac(7, 10)
          [] t = "0.85" -> Frac(17, 20)
          [] t = "0.9" -> Frac(9, 10)
          [] t = "0.95" -> Frac(19, 20)
          [] t = "1.0" -> Frac(1, 1)
          [] t = "10" -> Frac(10, 1)
          [] t = "20" -> Frac(20, 1)
          [] t = "30" -> Frac(30, 1)
          [] t = "40" -> Frac(40, 1)
          [] t = "50" -> Frac(50, 1)
          [] t = "200" -> Frac(200, 1)]

\* the strings of digits, with their values
DigitText ==
    [t \in {"0", "1", "2", "3", "10", "20", "30", "40", "50", "200"} |->
        CASE t = "0" -> 0
          [] t = "1" -> 1
          [] t = "2" -> 2
          [] t = "3" -> 3
          [] t = "10" -> 10
          [] t = "20" -> 20
          [] t = "30" -> 30
          [] t = "40" -> 40
          [] t = "50" -> 50
          [] t = "200" -> 200]

\* parse_float(val, default): float(val) if val else default; ValueError -> default
parse_float(val, default) ==
    IF val = "" THEN default
    ELSE IF val \in DOMAIN FloatText THEN FloatText[val]
    ELSE default

\* parse_bool(val): val.lower() == "true" if val else False
parse_bool(val) == IF val = "" THEN FALSE ELSE Lower(val) = "true"

-----------------------------------------------------------------------------
(* calculate_metrics *)

HasStatus(r, st) == "status" \in DOMAIN r /\ r["status"] = st

\* len([r for r in rows if r.get("status") == st])
count_status(rows, st) == Len(SelectSeq(rows, LAMBDA r : HasStatus(r, st)))

\* a filter that drops only the SKIPPED rows
not_skipped_of(rows) == SelectSeq(rows, LAMBDA r : ~HasStatus(r, "SKIPPED"))

\* completed = [r for r in results if r.get("status") == "COMPLETED"]
completed_of(rows) == SelectSeq(rows, LAMBDA r : HasStatus(r, "COMPLETED"))

\* r.get("entity_type_correct", "").lower() == "true"
entity_type_correct(r) == Lower(Get(r, "entity_type_correct", "")) = "true"

\* predicted = [r for r in completed
\*              if r.get("actual_entity_type", "").lower() == entity_type]
predicted_of(completed, entity_type) ==
    SelectSeq(completed,
              LAMBDA r : Lower(Get(r, "actual_entity_type", "")) = entity_type)

\* actual = [r for r in completed
\*           if r.get("expected_entity_type", "").lower() == entity_type]
actual_of(completed, entity_type) ==
    SelectSeq(completed,
              LAMBDA r : Lower(Get(r, "expected_entity_type", "")) = entity_type)

\* true_positives = [r for r in predicted if ... entity_type_correct ... "true"]
true_positives_of(predicted) == SelectSeq(predicted, entity_type_correct)

\* one iteration of "for entity_type in ENTITY_TYPES": entity_metrics[entity_type]
entity_metric(completed, entity_type) ==
    LET predicted == predicted_of(completed, entity_type)
        actual == actual_of(completed, entity_type)
        true_positives == true_positives_of(predicted)
        precision == IF predicted # <<>>
                     THEN Frac(Len(true_positives), Len(predicted)) ELSE Zero
        recall == IF actual # <<>>
                  THEN Frac(Len(true_positives), Len(actual)) ELSE Zero
        f1 == IF RLt(Zero, RAdd(precision, recall))
              THEN RDiv(RMul(Frac(2, 1), RMul(precision, recall)),
                        RAdd(precision, recall))
              ELSE Zero
    IN  [precision |-> precision,
         recall |-> recall,
         f1 |-> f1,
         support |-> Len(actual),
         predicted_count |-> Len(predicted)]

\* the dict built by the loop over ENTITY_TYPES
entity_metrics_of(completed, entity_types) ==
    [entity_type \in {entity_types[i] : i \in DOMAIN entity_types} |->
        entity_metric(completed, entity_type)]

\* the expected label taken as written, without lower()
cm_expected_as_written(r) == Get(r, "expected_entity_type", "unknown")

\* expected = r.get("expected_entity_type", "unknown").lower()
cm_expected(r) == Lower(Get(r, "expected_entity_type", "unknown"))
\* actual = r.get("actual_entity_type", "unknown").lower()
cm_actual(r) == Lower(Get(r, "actual_entity_type", "unknown"))

\* confusion_matrix[expected][actual] += 1 for r in completed (a sparse dict of
\* dicts: only the keys that occur)
confusion_matrix_of(completed) ==
    LET I == DOMAIN completed
    IN  [e \in {cm_expected(completed[i]) : i \in I} |->
            [a \in {cm_actual(completed[i]) :
                        i \in {j \in I : cm_expected(completed[j]) = e}} |->
                Cardinality({i \in I : /\ cm_expected(completed[i]) = e
                                       /\ cm_actual(completed[i]) = a})]]

\* sum(1 for r in completed if parse_bool(r.get(flag, ""))) / n_completed
flag_accuracy(completed, flag) ==
    Frac(Len(SelectSeq(completed, LAMBDA r : parse_bool(Get(r, flag, "")))),
         Len(completed))

\* sum(xs) / len(xs) of the parsed float field
float_avg(completed, fld) ==
    RDiv(RSum([i \in DOMAIN completed |->
                    parse_float(Get(completed[i], fld, "0"), Zero)]),
         Frac(Len(completed), 1))

\* hour_errors and avg_hour_error (None when no row has a digit string)
avg_hour_error_of(completed) ==
    LET with_err == SelectSeq(completed,
            LAMBDA r : Get(r, "start_hour_error", "") \in DOMAIN DigitText)
        hour_errors == [i \in DOMAIN with_err |->
            Frac(DigitText[with_err[i]["start_hour_error"]], 1)]
    IN  IF hour_errors # <<>>
        THEN Some(RDiv(RSum(hour_errors), Frac(Len(hour_errors), 1)))
        ELSE None

\* a chain whose bins are closed above: 0.5, 0.7 and 0.9 fall in the lower bin
bin_key_closed_above(conf) ==
    IF RLe(conf, Frac(1, 2)) THEN "0.0-0.5"
    ELSE IF RLe(conf, Frac(7, 10)) THEN "0.5-0.7"
    ELSE IF RLe(conf, Frac(9, 10)) THEN "0.7-0.9"
    ELSE "0.9-1.0"

\* the chain "if conf < 0.5 ... elif conf < 0.7 ... elif conf < 0.9 ... else"
bin_key_of(conf) ==
    IF RLt(conf, Frac(1, 2)) THEN "0.0-0.5"
    ELSE IF RLt(conf, Frac(7, 10)) THEN "0.5-0.7"
    ELSE IF RLt(conf, Frac(9, 10)) THEN "0.7-0.9"
    ELSE "0.9-1.0"

\* the keys of confidence_bins, in the dict's order
BinKeys == <<"0.0-0.5", "0.5-0.7", "0.7-0.9", "0.9-1.0">>

row_bin(r) == bin_key_of(parse_float(Get(r, "confidence", "0"), Zero))

\* confidence_bins after the loop over completed
confidence_bins_of(completed) ==
    [k \in {BinKeys[i] : i \in DOMAIN BinKeys} |->
        [count |-> Len(SelectSeq(completed, LAMBDA r : row_bin(r) = k)),
         correct |-> Len(SelectSeq(completed,
            LAMBDA r : /\ row_bin(r) = k
                       /\ parse_bool(Get(r, "entity_type_correct", ""))))]]

\* expected_conf: "midpoint of bin as expected confidence"
expected_conf(bin_key) ==
    IF bin_key = "0.0-0.5" THEN Frac(1, 4)
    ELSE IF bin_key = "0.5-0.7" THEN Frac(3, 5)
    ELSE IF bin_key = "0.7-0.9" THEN Frac(4, 5)
    ELSE Frac(19, 20)

\* ece: the sum over the bins with count > 0
ece_of(confidence_bins, n_completed) ==
    RSum([i \in DOMAIN BinKeys |->
            LET bin_data == confidence_bins[BinKeys[i]]
            IN  IF bin_data.count > 0
                THEN RMul(RAbs(RSub(Frac(bin_data.correct, bin_data.count),
                                    expected_conf(BinKeys[i]))),
                          Frac(bin_data.count, n_completed))
                ELSE Zero])

\* sorted(xs): ascending, by insertion
RECURSIVE Insert(_, _)
Insert(x, s) ==
    IF s = <<>> THEN <<x>>
    ELSE IF RLe(x, Head(s)) THEN <<x>> \o s
    ELSE <<Head(s)>> \o Insert(x, Tail(s))

\* a sample left in its input order
unsorted(s) == s

RECURSIVE sorted(_)
sorted(s) == IF s = <<>> THEN <<>> ELSE Insert(Head(s), sorted(Tail(s)))

\* latencies = [parse_float(r.get("latency_ms", "0")) for r in completed]
latencies_of(completed) ==
    [i \in DOMAIN completed |->
        parse_float(Get(completed[i], "latency_ms", "0"), Zero)]

\* the 0-based indices len // 2, min(int(len * 0.95), len - 1) and
\* min(int(len * 0.99), len - 1).  int(len * 0.95) is floor(95 * len / 100)
\* (the double product truncates to that for every len below 2000).
Min(a, b) == IF a <= b THEN a ELSE b
p50_idx(n) == n \div 2
p95_idx(n) == Min((n * 95) \div 100, n - 1)
p99_idx(n) == Min((n * 99) \div 100, n - 1)

\* avg_latency, p50_latency, p95_latency, p99_latency
latency_metrics(latencies) ==
    LET latencies_sorted == sorted(latencies)
        n == Len(latencies)
    IN  [avg_latency_ms |-> RDiv(RSum(latencies), Frac(n, 1)),
         p50_latency_ms |-> latencies_sorted[p50_idx(n) + 1],
         p95_latency_ms |-> latencies_sorted[p95_idx(n) + 1],
         p99_latency_ms |-> latencies_sorted[p99_idx(n) + 1]]

\* a no-completed document that reports an accuracy of 0.0
no_completed_document_with_ratio(rows) ==
    [total_tests |-> Len(rows),
     completed_tests |-> 0,
     skipped_tests |-> count_status(rows, "SKIPPED"),
     error_tests |-> count_status(rows, "ERROR"),
     entity_type_accuracy |-> Zero,
     error |-> "No completed tests to analyze"]

\* the document returned when n_completed == 0
no_completed_document(rows) ==
    [total_tests |-> Len(rows),
     completed_tests |-> 0,
     skipped_tests |-> count_status(rows, "SKIPPED"),
     error_tests |-> count_status(rows, "ERROR"),
     error |-> "No completed tests to analyze"]

\* the document returned when n_completed > 0; entity_types is the global
\* ENTITY_TYPES and now is datetime.now().isoformat()
full_document(rows, entity_types, now) ==
    LET completed == completed_of(rows)
        n_completed == Len(completed)
        first_result == rows[1]
        confidence_bins == confidence_bins_of(completed)
        latencies == latencies_of(completed)
        lat == latency_metrics(latencies)
    IN  [run_id |-> Get(first_result, "run_id", "unknown"),
         timestamp |-> Get(first_result, "timestamp", now),
         prompt_version |-> Get(first_result, "prompt_version", "unknown"),
         total_tests |-> Len(rows),
         completed_tests |-> n_completed,
         skipped_tests |-> count_status(rows, "SKIPPED"),
         error_tests |-> count_status(rows, "ERROR"),
         completion_rate |-> Frac(n_completed, Len(rows)),
         entity_type_accuracy |->
            Frac(Len(SelectSeq(completed, entity_type_correct)), n_completed),
         entity_type_metrics |-> entity_metrics_of(completed, entity_types),
         confusion_matrix |-> confusion_matrix_of(completed),
         title_keyword_overlap_avg |->
            float_avg(completed, "title_keyword_overlap"),
         start_time_presence_accuracy |->
            flag_accuracy(completed, "start_time_presence_correct"),
         start_hour_accuracy |-> flag_accuracy(completed, "start_hour_correct"),
         avg_hour_error |-> avg_hour_error_of(completed),
         end_time_presence_accuracy |->
            flag_accuracy(completed, "end_time_presence_correct"),
         recurrence_presence_accuracy |->
            flag_accuracy(completed, "recurrence_presence_correct"),
         time_preference_presence_accuracy |->
            flag_accuracy(completed, "time_preference_presence_correct"),
         avg_confidence |-> float_avg(completed, "confidence"),
         confidence_calibration_rate |->
            flag_accuracy(completed, "confidence_calibrated"),
         confidence_bins |-> confidence_bins,
         expected_calibration_error |-> ece_of(confidence_bins, n_completed),
         avg_latency_ms |-> lat.avg_latency_ms,
         p50_latency_ms |-> lat.p50_latency_ms,
         p95_latency_ms |-> lat.p95_latency_ms,
         p99_latency_ms |-> lat.p99_latency_ms,
         latencies |-> latencies]

\* calculate_metrics(results)
calculate_metrics(rows, entity_types, now) ==
    IF Len(completed_of(rows)) = 0
    THEN no_completed_document(rows)
    ELSE full_document(rows, entity_types, now)

-----------------------------------------------------------------------------
(* Inputs of the metrics calculator *)

\* longest enumerated batch of classification rows
MaxRows == 2
\* longest enumerated batch of arbitrary latency rows
MaxLatencyRows == 3
\* longest batch of latency rows made of two constant blocks
MaxBlockRows == 22

\* all sequences over S of length at most n
SeqsUpTo(S, n) == UNION {[1..k -> S] : k \in 0..n}

\* r, and r with field k set to each value of Vals
WithField(R, k, Vals) == R \cup {Ext(r, k, v) : r \in R, v \in Vals}

\* load_config: the built-in default label list, and a config.json that
\* lists capitalised labels
DefaultEntityTypes == <<"task", "event", "habit", "override", "unknown">>
CustomEntityTypes == <<"Task", "Event">>
EntityTypeConfigs == {DefaultEntityTypes, CustomEntityTypes}

\* datetime.now().isoformat() at the time of the run
Now == "2026-01-01T00:00:00"

ClassLabels == {"task", "Task", "habit"}

\* completed rows differing in the classification fields; either label may
\* be missing
CompletedClassRows ==
    WithField(
        WithField({[status |-> "COMPLETED", entity_type_correct |-> c] :
                        c \in {"true", "false"}},
                  "expected_entity_type", ClassLabels),
        "actual_entity_type", ClassLabels)

NotCompletedRows == {[status |-> "SKIPPED"], [status |-> "ERROR"]}

ClassInputs == SeqsUpTo(CompletedClassRows \cup NotCompletedRows, MaxRows)

ClassRow(e, a, c) ==
    [status |-> "COMPLETED", expected_entity_type |-> e,
     actual_entity_type |-> a, entity_type_correct |-> c]

\* expected=[task,event,task,habit], actual=[task,event,habit,habit],
\* correct=[true,true,false,true]
ScenarioClassRows ==
    <<ClassRow("task", "task", "true"), ClassRow("event", "event", "true"),
      ClassRow("task", "habit", "false"), ClassRow("habit", "habit", "true")>>

LatencyRow(l) == [status |-> "COMPLETED", latency_ms |-> l]

LatencyTexts == {"10", "20", "abc"}

\* k rows of latency a followed by n - k rows of latency b
BlockRows(n, k, a, b) ==
    [i \in 1..n |-> IF i <= k THEN LatencyRow(a) ELSE LatencyRow(b)]

LatencyInputs ==
    SeqsUpTo({LatencyRow(l) : l \in LatencyTexts} \cup {[status |-> "SKIPPED"]},
             MaxLatencyRows)
    \cup {BlockRows(n, k, a, b) :
            n \in 1..MaxBlockRows, k \in 0..MaxBlockRows,
            a \in LatencyTexts, b \in LatencyTexts}

\* latencies [10,20,30,40,50], given out of order
ScenarioLatencyRows ==
    <<LatencyRow("30"), LatencyRow("10"), LatencyRow("50"),
      LatencyRow("20"), LatencyRow("40")>>

ConfidenceRow(conf, c) ==
    [status |-> "COMPLETED", confidence |-> conf, entity_type_correct |-> c]

\* confidence cells: inside a bin, on each boundary, and not a number
ConfidenceTexts == {"0.2", "0.5", "0.7", "0.9", "1.0", "abc"}

\* completed rows with a confidence cell, or without the column
ConfidenceRows ==
    WithField({[status |-> "COMPLETED", entity_type_correct |-> c] :
                    c \in {"true", "false"}},
              "confidence", ConfidenceTexts)

ConfidenceInputs == SeqsUpTo(ConfidenceRows \cup {[status |-> "ERROR"]}, MaxRows)

\* confidences [0.2,0.6,0.85,0.95] with correctness [false,true,true,true]
ScenarioConfidenceRows ==
    <<ConfidenceRow("0.2", "false"), ConfidenceRow("0.6", "true"),
      ConfidenceRow("0.85", "true"), ConfidenceRow("0.95", "true")>>

\* longest enumerated batch mixing completed and other rows
MaxMixedRows == 3

\* a row with every column the ratios read
DataRow(st, e, a, c, conf, l) ==
    [status |-> st, expected_entity_type |-> e, actual_entity_type |-> a,
     entity_type_correct |-> c, start_hour_correct |-> c,
     title_keyword_overlap |-> conf, confidence |-> conf, latency_ms |-> l]

\* two different completed rows
CompletedDataRows ==
    {DataRow("COMPLETED", "task", "task", "true", "0.95", "10"),
     DataRow("COMPLETED", "habit", "task", "false", "0.2", "20")}

\* the status cells that are not exactly COMPLETED
OtherStatuses == {"SKIPPED", "ERROR", "completed", "PENDING"}

\* rows that are not completed but carry data in every column; the last one
\* has no status column
OtherDataRows ==
    {DataRow(st, "task", "habit", "true", "0.7", "200") : st \in OtherStatuses}
    \cup {[expected_entity_type |-> "task", actual_entity_type |-> "habit",
           entity_type_correct |-> "true", start_hour_correct |-> "true",
           title_keyword_overlap |-> "0.7", confidence |-> "0.7",
           latency_ms |-> "200"]}

MixedInputs == SeqsUpTo(CompletedDataRows \cup OtherDataRows, MaxMixedRows)

MetricInputs ==
    ClassInputs \cup LatencyInputs \cup ConfidenceInputs \cup MixedInputs
    \cup {ScenarioClassRows, ScenarioLatencyRows, ScenarioConfidenceRows}

-----------------------------------------------------------------------------
(* The metrics calculator as a state machine: main() loads the rows and     *)
(* calls calculate_metrics once.                                           *)

NotComputed == [pending |-> TRUE]
Computed == "pending" \notin DOMAIN metrics

NoHistory == <<>>
NoComparison == [status |-> "none"]

InitMetrics ==
    /\ ENTITY_TYPES \in EntityTypeConfigs
    /\ results \in MetricInputs
    /\ metrics = NotComputed
    /\ history_file = NoHistory
    /\ writes = 0
    /\ outcome = "none"
    /\ appended = {}
    /\ history = NoHistory
    /\ comparison = NoComparison
    /\ NoCalls

\* metrics = calculate_metrics(results)
CalculateMetrics ==
    /\ ~Computed
    /\ metrics' = calculate_metrics(results, ENTITY_TYPES, Now)
    /\ UNCHANGED <<ENTITY_TYPES, results, history_file, writes, outcome,
                   appended, history, comparison, procvars>>

NextMetrics == CalculateMetrics

SpecMetrics == InitMetrics /\ [][NextMetrics]_vars

-----------------------------------------------------------------------------
(* Properties of the metrics calculator *)

\* the document of a batch with at least one completed row
FullDocument == Computed /\ "entity_type_metrics" \in DOMAIN metrics

ConfiguredLabels == {ENTITY_TYPES[i] : i \in DOMAIN ENTITY_TYPES}

\* indices of the completed rows of the input
CompletedIdx ==
    {i \in DOMAIN results :
        "status" \in DOMAIN results[i] /\ results[i]["status"] = "COMPLETED"}

InUnit(x) == RLe(Zero, x) /\ RLe(x, One)

\* C3: for every batch with a completed row and every configured label,
\* precision, recall and f1 lie in [0,1], and f1 is 0 whenever
\* precision + recall is 0.
C3_PrecisionRecallF1InUnitInterval ==
    FullDocument =>
        \A l \in ConfiguredLabels :
            LET m == metrics.entity_type_metrics[l]
            IN  /\ InUnit(m.precision)
                /\ InUnit(m.recall)
                /\ InUnit(m.f1)
                /\ (RAdd(m.precision, m.recall) = Zero => m.f1 = Zero)

\* C5: a batch without completed rows yields exactly the counts and the
\* "no completed tests" marker: completed_tests is 0, the total, skipped and
\* error counts are those of the batch, and no ratio field is present.
C5_NoCompletedRowsGivesCountsOnly ==
    (Computed /\ CompletedIdx = {}) =>
        /\ DOMAIN metrics = {"total_tests", "completed_tests", "skipped_tests",
                             "error_tests", "error"}
        /\ metrics.completed_tests = 0
        /\ metrics.total_tests = Len(results)
        /\ metrics.skipped_tests =
              Cardinality({i \in DOMAIN results :
                  "status" \in DOMAIN results[i]
                      /\ results[i]["status"] = "SKIPPED"})
        /\ metrics.error_tests =
              Cardinality({i \in DOMAIN results :
                  "status" \in DOMAIN results[i]
                      /\ results[i]["status"] = "ERROR"})
        /\ metrics.error = "No completed tests to analyze"

\* C5 witness: a non-empty batch of only SKIPPED/ERROR rows was analysed
C5_Witness ==
    /\ Computed
    /\ Len(results) = 2
    /\ CompletedIdx = {}
    /\ metrics.skipped_tests = 1
    /\ metrics.error_tests = 1

\* x is the element of rank k (0-based) of the ascending order of sample s
IsRank(x, k, s) ==
    /\ \E i \in DOMAIN s : s[i] = x
    /\ Cardinality({i \in DOMAIN s : RLt(s[i], x)}) <= k
    /\ Cardinality({i \in DOMAIN s : RLe(s[i], x)}) >= k + 1

\* C6: for n completed latencies, p50, p95 and p99 are the elements of the
\* ascending sample at indices floor(n/2), min(floor(0.95 n), n-1) and
\* min(floor(0.99 n), n-1); the indices are within 0..n-1 and
\* p50 <= p95 <= p99; latencies [10,20,30,40,50] give 30, 50, 50.
C6_PercentilesAtNearestRank ==
    FullDocument =>
        LET s == metrics.latencies
            n == Len(s)
            i50 == n \div 2
            f95 == (95 * n) \div 100
            f99 == (99 * n) \div 100
            i95 == IF f95 < n - 1 THEN f95 ELSE n - 1
            i99 == IF f99 < n - 1 THEN f99 ELSE n - 1
        IN  /\ n = Cardinality(CompletedIdx)
            /\ {i50, i95, i99} \subseteq 0..(n - 1)
            /\ IsRank(metrics.p50_latency_ms, i50, s)
            /\ IsRank(metrics.p95_latency_ms, i95, s)
            /\ IsRank(metrics.p99_latency_ms, i99, s)
            /\ RLe(metrics.p50_latency_ms, metrics.p95_latency_ms)
            /\ RLe(metrics.p95_latency_ms, metrics.p99_latency_ms)
            /\ (results = ScenarioLatencyRows =>
                    /\ metrics.p50_latency_ms = Frac(30, 1)
                    /\ metrics.p95_latency_ms = Frac(50, 1)
                    /\ metrics.p99_latency_ms = Frac(50, 1))

\* C6 witness: a sample whose three percentiles are not all the same element
\* (p50 < p95 in the scenario)
C6_Witness ==
    /\ FullDocument
    /\ results = ScenarioLatencyRows
    /\ RLt(metrics.p50_latency_ms, metrics.p95_latency_ms)

\* the sum of the values of a dict of counts
RECURSIVE SumCounts(_)
SumCounts(f) ==
    IF DOMAIN f = {} THEN 0
    ELSE LET k == CHOOSE x \in DOMAIN f : TRUE
         IN  f[k] + SumCounts([x \in DOMAIN f \ {k} |-> f[x]])

\* the label of a row's field, lower-cased, "unknown" when the field is absent
LabelOrUnknown(r, fld) ==
    IF fld \in DOMAIN r THEN Lower(r[fld]) ELSE "unknown"

\* C7: each row of the confusion matrix sums to the number of completed
\* rows with that (lower-cased) expected label, and the whole matrix sums to
\* the number of completed rows.
C7_ConfusionMatrixRowSums ==
    FullDocument =>
        LET cm == metrics.confusion_matrix
        IN  /\ \A e \in DOMAIN cm :
                  SumCounts(cm[e]) =
                      Cardinality({i \in CompletedIdx :
                          LabelOrUnknown(results[i], "expected_entity_type") = e})
            /\ SumCounts([e \in DOMAIN cm |-> SumCounts(cm[e])]) =
                  Cardinality(CompletedIdx)

\* C7 witness: a batch mixing completed and non-completed rows whose
\* completed rows share one expected label up to case
C7_Witness ==
    /\ FullDocument
    /\ Len(results) > Cardinality(CompletedIdx)
    /\ \E i \in CompletedIdx :
          /\ "expected_entity_type" \in DOMAIN results[i]
          /\ results[i]["expected_entity_type"] = "Task"
          /\ "task" \in DOMAIN metrics.confusion_matrix
          /\ "Task" \notin DOMAIN metrics.confusion_matrix

\* s and t are the same string up to case
SameIgnoringCase(s, t) == Lower(s) = Lower(t)

\* C9: for every configured label, support and predicted_count count the
\* completed rows whose expected, respectively actual, label equals it
\* case-insensitively; precision = TP/predicted_count and recall = TP/support
\* (0.0 on an empty denominator), TP being the predicted rows flagged correct.
C9_PerClassCountsCaseInsensitive ==
    FullDocument =>
        \A l \in ConfiguredLabels :
            LET m == metrics.entity_type_metrics[l]
                S == {i \in CompletedIdx :
                        /\ "expected_entity_type" \in DOMAIN results[i]
                        /\ SameIgnoringCase(results[i]["expected_entity_type"], l)}
                P == {i \in CompletedIdx :
                        /\ "actual_entity_type" \in DOMAIN results[i]
                        /\ SameIgnoringCase(results[i]["actual_entity_type"], l)}
                TP == {i \in P :
                        /\ "entity_type_correct" \in DOMAIN results[i]
                        /\ Lower(results[i]["entity_type_correct"]) = "true"}
            IN  /\ m.support = Cardinality(S)
                /\ m.predicted_count = Cardinality(P)
                /\ m.precision = IF P = {} THEN Zero
                                 ELSE Frac(Cardinality(TP), Cardinality(P))
                /\ m.recall = IF S = {} THEN Zero
                              ELSE Frac(Cardinality(TP), Cardinality(S))

\* the row sum of the confusion matrix for an expected label (0 when absent)
RowSum(cm, e) == IF e \in DOMAIN cm THEN SumCounts(cm[e]) ELSE 0
\* the column sum of the confusion matrix for an actual label
ColSum(cm, a) ==
    SumCounts([e \in DOMAIN cm |-> IF a \in DOMAIN cm[e] THEN cm[e][a] ELSE 0])

\* C10: a completed row without expected (actual) label counts as "unknown"
\* in the per-class support (predicted_count) as in the confusion matrix, so
\* every configured label's support is its confusion-matrix row sum.
C10_AbsentLabelIsUnknownEverywhere ==
    FullDocument =>
        LET cm == metrics.confusion_matrix
        IN  \A l \in ConfiguredLabels :
                /\ metrics.entity_type_metrics[l].support = RowSum(cm, l)
                /\ metrics.entity_type_metrics[l].predicted_count = ColSum(cm, l)

\* the confidence of a row as a number: 0.0 when the cell is absent, empty
\* or not a number
ConfidenceOf(r) ==
    IF "confidence" \in DOMAIN r /\ r["confidence"] \in DOMAIN FloatText
    THEN FloatText[r["confidence"]] ELSE Zero

\* the four bins [0,0.5), [0.5,0.7), [0.7,0.9), [0.9,1.0] and their midpoints
BinBounds ==
    <<[key |-> "0.0-0.5", lo |-> Frac(0, 1), hi |-> Frac(1, 2),
       mid |-> Frac(1, 4)],
      [key |-> "0.5-0.7", lo |-> Frac(1, 2), hi |-> Frac(7, 10),
       mid |-> Frac(3, 5)],
      [key |-> "0.7-0.9", lo |-> Frac(7, 10), hi |-> Frac(9, 10),
       mid |-> Frac(4, 5)],
      [key |-> "0.9-1.0", lo |-> Frac(9, 10), hi |-> Frac(1, 1),
       mid |-> Frac(19, 20)]>>

\* confidence c lies in bin k: half-open, the last bin closed at 1.0
InBin(c, k) ==
    /\ RLe(BinBounds[k].lo, c)
    /\ \/ RLt(c, BinBounds[k].hi)
       \/ k = Len(BinBounds) /\ c = BinBounds[k].hi

\* the completed rows of the input whose confidence lies in bin k
BinRows(k) == {i \in CompletedIdx : InBin(ConfidenceOf(results[i]), k)}

\* those of them flagged correct
BinCorrectRows(k) ==
    {i \in BinRows(k) :
        /\ "entity_type_correct" \in DOMAIN results[i]
        /\ Lower(results[i]["entity_type_correct"]) = "true"}

\* |correct/count - midpoint| * count/n of bin k, 0 for an empty bin
BinGap(k, n) ==
    IF BinRows(k) = {} THEN Zero
    ELSE RMul(RAbs(RSub(Frac(Cardinality(BinCorrectRows(k)),
                             Cardinality(BinRows(k))),
                        BinBounds[k].mid)),
              Frac(Cardinality(BinRows(k)), n))

\* C13: every completed row falls in exactly one of the bins [0,0.5),
\* [0.5,0.7), [0.7,0.9), [0.9,1.0] (0.5, 0.7 and 0.9 in the upper one, an
\* unparseable confidence as 0.0); the bin counts sum to n, correct <= count
\* in each bin, and the ECE is the sum over the non-empty bins of
\* |correct/count - midpoint| * count/n with midpoints 0.25, 0.6, 0.8, 0.95;
\* the scenario gives counts [1,1,1,1] and ECE 0.225.
C13_ConfidenceBinsAndECE ==
    FullDocument =>
        LET bins == metrics.confidence_bins
            n == Cardinality(CompletedIdx)
            K == DOMAIN BinBounds
        IN  /\ DOMAIN bins = {BinBounds[k].key : k \in K}
            /\ \A i \in CompletedIdx :
                  Cardinality({k \in K : i \in BinRows(k)}) = 1
            /\ \A k \in K :
                  /\ bins[BinBounds[k].key].count = Cardinality(BinRows(k))
                  /\ bins[BinBounds[k].key].correct =
                        Cardinality(BinCorrectRows(k))
                  /\ bins[BinBounds[k].key].correct
                        <= bins[BinBounds[k].key].count
            /\ SumCounts([k \in K |-> bins[BinBounds[k].key].count]) = n
            /\ metrics.expected_calibration_error =
                  RSum([k \in K |-> BinGap(k, n)])
            /\ (results = ScenarioConfidenceRows =>
                    /\ \A k \in K : bins[BinBounds[k].key].count = 1
                    /\ metrics.expected_calibration_error = Frac(9, 40))

\* C13 witness: a confidence of 0.5 and one of 0.9 were binned, the first
\* flagged correct, each in the bin it opens
C13_Witness ==
    /\ FullDocument
    /\ Len(results) = 2
    /\ CompletedIdx = {1, 2}
    /\ "confidence" \in DOMAIN results[1]
    /\ results[1]["confidence"] = "0.5"
    /\ "confidence" \in DOMAIN results[2]
    /\ results[2]["confidence"] = "0.9"
    /\ metrics.confidence_bins["0.5-0.7"] = [count |-> 1, correct |-> 1]
    /\ metrics.confidence_bins["0.9-1.0"] = [count |-> 1, correct |-> 0]
    /\ RLt(Zero, metrics.expected_calibration_error)

\* the fields of the document that are ratios, or are built from the
\* completed rows
RatioKeys ==
    {"entity_type_accuracy", "entity_type_metrics", "confusion_matrix",
     "title_keyword_overlap_avg", "start_time_presence_accuracy",
     "start_hour_accuracy", "avg_hour_error", "end_time_presence_accuracy",
     "recurrence_presence_accuracy", "time_preference_presence_accuracy",
     "avg_confidence", "confidence_calibration_rate", "confidence_bins",
     "expected_calibration_error", "avg_latency_ms", "p50_latency_ms",
     "p95_latency_ms", "p99_latency_ms", "latencies"}

\* the rows of the input with the given status cell
StatusIdx(st) ==
    {i \in DOMAIN results :
        "status" \in DOMAIN results[i] /\ results[i]["status"] = st}

\* the input with every row after the first one removed unless its status is
\* exactly COMPLETED
WithoutOtherRows ==
    IF results = <<>> THEN <<>>
    ELSE <<Head(results)>> \o
         SelectSeq(Tail(results),
                   LAMBDA r : "status" \in DOMAIN r /\ r["status"] = "COMPLETED")

\* C14: rows whose status is not exactly COMPLETED are counted in
\* total_tests (and in skipped_tests or error_tests when SKIPPED or ERROR)
\* and change no ratio: the document of an input and the document of the
\* same input without its non-completed rows after the first row agree on
\* the accuracy, the per-class metrics, the confusion matrix, the field
\* accuracies, the confidence bins, the ECE and the latencies; and
\* completed_tests + skipped_tests + error_tests <= total_tests.
C14_OnlyCompletedRowsEnterRatios ==
    Computed =>
        LET kept == calculate_metrics(WithoutOtherRows, ENTITY_TYPES, Now)
        IN  /\ \A k \in RatioKeys : GetOpt(metrics, k) = GetOpt(kept, k)
            /\ metrics.total_tests = Len(results)
            /\ metrics.completed_tests = Cardinality(StatusIdx("COMPLETED"))
            /\ metrics.skipped_tests = Cardinality(StatusIdx("SKIPPED"))
            /\ metrics.error_tests = Cardinality(StatusIdx("ERROR"))
            /\ metrics.completed_tests + metrics.skipped_tests
                    + metrics.error_tests <= metrics.total_tests
            /\ kept.completed_tests = metrics.completed_tests

\* C14 witness: two different completed rows with, between them, a row of
\* status "completed" that carries data: it is counted in the total only
C14_Witness ==
    /\ FullDocument
    /\ Len(results) = 3
    /\ StatusIdx("COMPLETED") = {1, 3}
    /\ StatusIdx("completed") = {2}
    /\ results[1] # results[3]
    /\ "latency_ms" \in DOMAIN results[2]
    /\ metrics.total_tests = 3
    /\ metrics.completed_tests = 2
    /\ metrics.skipped_tests + metrics.error_tests = 0
    /\ metrics.entity_type_accuracy = Frac(1, 2)
    /\ metrics.p99_latency_ms = Frac(20, 1)

-----------------------------------------------------------------------------
(* The history store.  METRICS_HISTORY_FILE is missing, holds a JSON list   *)
(* of records, holds something json.load rejects, or holds a JSON object   *)
(* where the list should be.  json.dump and json.load carry str, int,      *)
(* float and None through unchanged, so a valid file is modelled by the    *)
(* list it holds.                                                          *)

MissingFile == [state |-> "missing", records |-> <<>>]
CorruptFile == [state |-> "corrupt", records |-> <<>>]
ObjectFile == [state |-> "object", records |-> <<>>]
ValidFile(h) == [state |-> "valid", records |-> h]

\* a loader that takes whatever is not a readable list for an empty history
load_or_empty(file) ==
    IF file.state = "valid"
    THEN [raised |-> FALSE, list |-> TRUE, value |-> file.records]
    ELSE [raised |-> FALSE, list |-> TRUE, value |-> <<>>]

\* load_metrics_history(): [] for a missing file, else json.load, which raises
\* on a malformed document and returns whatever a well-formed one holds
load_metrics_history(file) ==
    IF file.state = "missing"
    THEN [raised |-> FALSE, list |-> TRUE, value |-> <<>>]
    ELSE IF file.state = "valid"
    THEN [raised |-> FALSE, list |-> TRUE, value |-> file.records]
    ELSE IF file.state = "object"
    THEN [raised |-> FALSE, list |-> FALSE, value |-> <<>>]
    ELSE [raised |-> TRUE, list |-> FALSE, value |-> <<>>]

\* save_metrics_history(history): the file is rewritten in full
save_metrics_history(h) == ValidFile(h)

\* history_record = {"run_id": metrics.get("run_id"), ...}
history_record(m) ==
    [run_id |-> GetOpt(m, "run_id"),
     timestamp |-> GetOpt(m, "timestamp"),
     prompt_version |-> GetOpt(m, "prompt_version"),
     total_tests |-> GetOpt(m, "total_tests"),
     completed_tests |-> GetOpt(m, "completed_tests"),
     completion_rate |-> GetOpt(m, "completion_rate"),
     entity_type_accuracy |-> GetOpt(m, "entity_type_accuracy"),
     title_keyword_overlap_avg |-> GetOpt(m, "title_keyword_overlap_avg"),
     start_time_presence_accuracy |-> GetOpt(m, "start_time_presence_accuracy"),
     start_hour_accuracy |-> GetOpt(m, "start_hour_accuracy"),
     avg_confidence |-> GetOpt(m, "avg_confidence"),
     expected_calibration_error |-> GetOpt(m, "expected_calibration_error"),
     avg_latency_ms |-> GetOpt(m, "avg_latency_ms"),
     p95_latency_ms |-> GetOpt(m, "p95_latency_ms")]

\* existing_ids = {h.get("run_id") for h in history}
existing_ids(h) == {h[i].run_id : i \in DOMAIN h}

\* a duplicate check that never finds the run
never_in_history(h, rec) == FALSE

\* the test "history_record["run_id"] not in existing_ids", negated
already_in_history(h, rec) == rec.run_id \in existing_ids(h)

\* the record put in front instead of at the end
history_prepend(h, rec) == <<rec>> \o h

\* history.append(history_record)
history_append(h, rec) == Append(h, rec)

\* the print of either branch slices history_record['run_id'][:8], which
\* raises TypeError when the run_id is None
print_outcome(rec, said) == IF rec.run_id = None THEN "TypeError" ELSE said

\* add_to_history(metrics): the file, the number of rewrites and the way the
\* call ends.  On a loaded JSON object, h.get of its keys (or, when it is
\* empty, history.append) raises AttributeError before anything is saved.
add_to_history(m, file, nwrites) ==
    LET rec == history_record(m)
        loaded == load_metrics_history(file)
        h == loaded.value
    IN  IF loaded.raised
        THEN [file |-> file, writes |-> nwrites, outcome |-> "JSONDecodeError"]
        ELSE IF ~loaded.list
        THEN [file |-> file, writes |-> nwrites, outcome |-> "AttributeError"]
        ELSE IF ~already_in_history(h, rec)
        THEN [file |-> save_metrics_history(history_append(h, rec)),
              writes |-> nwrites + 1,
              outcome |-> print_outcome(rec, "added")]
        ELSE [file |-> file, writes |-> nwrites,
              outcome |-> print_outcome(rec, "already in history")]

\* number of distinct run ids the analysed batches carry
MaxRuns == 2

RunIdNames == <<"run-0001-aaaa", "run-0002-bbbb", "run-0003-cccc",
                "run-0004-dddd">>
RunIds == {RunIdNames[i] : i \in 1..MaxRuns}

Timestamps == {"2026-01-01T10:00:00", "2026-01-02T10:00:00"}

\* single-row batches whose row is completed, with or without a run_id
CompletedHistoryRows ==
    WithField({[status |-> "COMPLETED", timestamp |-> t,
                prompt_version |-> "v1", entity_type_correct |-> "true"] :
                    t \in Timestamps},
              "run_id", RunIds)

\* a batch whose only row was skipped
SkippedHistoryRow ==
    [status |-> "SKIPPED", run_id |-> RunIdNames[1],
     timestamp |-> "2026-01-01T10:00:00", prompt_version |-> "v1"]

\* the batches main() analyses: empty, without completed row, or one
\* completed row
HistoryInputs ==
    {<<>>, <<SkippedHistoryRow>>} \cup {<<r>> : r \in CompletedHistoryRows}

\* calculate_metrics on each of these batches, per configuration
analysed ==
    [entity_types \in EntityTypeConfigs |->
        [rows \in HistoryInputs |-> calculate_metrics(rows, entity_types, Now)]]

InitHistory ==
    /\ ENTITY_TYPES = DefaultEntityTypes
    /\ results = <<>>
    /\ metrics = NotComputed
    /\ history_file \in {MissingFile, CorruptFile, ObjectFile}
    /\ writes = 0
    /\ outcome = "none"
    /\ appended = {}
    /\ history = NoHistory
    /\ comparison = NoComparison
    /\ NoCalls

\* main(): results = load_csv(...); metrics = calculate_metrics(results);
\* add_to_history(metrics)
AddToHistory ==
    \E rows \in HistoryInputs :
        LET m == analysed[ENTITY_TYPES][rows]
            r == add_to_history(m, history_file, writes)
        IN  /\ results' = rows
            /\ metrics' = m
            /\ history_file' = r.file
            /\ writes' = r.writes
            /\ outcome' = r.outcome
            /\ appended' = appended \cup {history_record(m).run_id}
            /\ UNCHANGED <<ENTITY_TYPES, history, comparison, procvars>>

NextHistory == AddToHistory

SpecHistory == InitHistory /\ [][NextHistory]_vars

-----------------------------------------------------------------------------
(* Properties of the history store *)

Readable == history_file.state \in {"missing", "valid"}
StoredIds == {history_file.records[i].run_id : i \in DOMAIN history_file.records}

\* C1: starting from an empty store, after any sequence of add_to_history
\* calls the store holds exactly one record for each distinct run_id it was
\* called with, and no call makes the store grow by more than one record.
C1_OneRecordPerRunId ==
    /\ [](Readable =>
            /\ \A i, j \in DOMAIN history_file.records :
                  history_file.records[i].run_id = history_file.records[j].run_id
                      => i = j
            /\ StoredIds = appended
            /\ Len(history_file.records) = Cardinality(appended))
    /\ [][Len(history_file'.records) <= Len(history_file.records) + 1]_vars

\* C1 witness: a run that is already stored was added again, next to another
\* stored run
C1_Witness ==
    /\ outcome = "already in history"
    /\ Len(history_file.records) = 2
    /\ writes = 2

\* C2: one add_to_history call on a readable store H leaves the file as it
\* was, unwritten, when a record of H has the document's run_id, and
\* otherwise rewrites it as H followed by the one new record.
C2_NoopOrAppendAtTail ==
    [][Readable =>
        LET H == history_file.records
            rec == history_record(metrics')
        IN  IF \E i \in DOMAIN H : H[i].run_id = rec.run_id
            THEN history_file' = history_file /\ writes' = writes
            ELSE /\ history_file' = ValidFile(H \o <<rec>>)
                 /\ writes' = writes + 1]_vars

\* C2 witness: a record with an earlier timestamp was appended behind one
\* with a later timestamp
C2_Witness ==
    /\ outcome = "added"
    /\ Len(history_file.records) = 2
    /\ history_file.records[1].timestamp = Some("2026-01-02T10:00:00")
    /\ history_file.records[2].timestamp = Some("2026-01-01T10:00:00")
    /\ history_file.records[2] = history_record(metrics)

\* the ways an add_to_history call ends by raising
Failures == {"JSONDecodeError", "AttributeError", "TypeError"}

\* C15: on a history file that exists but is not a readable list of records
\* every add_to_history call fails (json.load's error when the document is
\* malformed), appends nothing and does not rewrite the file; on a missing
\* file the history is taken as empty and the file is written with the one
\* new record.
C15_UnreadableHistoryPropagates ==
    [][/\ history_file.state = "corrupt" =>
              /\ outcome' = "JSONDecodeError"
              /\ history_file' = history_file
              /\ writes' = writes
       /\ history_file.state = "object" =>
              /\ outcome' \in Failures
              /\ history_file' = history_file
              /\ writes' = writes
       /\ history_file.state = "missing" =>
              /\ outcome' # "JSONDecodeError"
              /\ history_file' = ValidFile(<<history_record(metrics')>>)
              /\ writes' = writes + 1]_vars

\* C15 witness: a document with a run_id was handed to add_to_history on a
\* malformed file, which is still as it was and was never written
C15_Witness ==
    /\ outcome = "JSONDecodeError"
    /\ history_file = CorruptFile
    /\ writes = 0
    /\ "run_id" \in DOMAIN metrics
    /\ appended # {}

\* C16: a call of add_to_history that raises leaves the persisted history
\* as it was before the call, for every document calculate_metrics returns,
\* and every persisted record has a run_id that is a string.
C16_NoFailureAfterStoreModified ==
    /\ [][outcome' \in Failures => history_file' = history_file]_vars
    /\ [](\A i \in DOMAIN history_file.records :
              history_file.records[i].run_id # None)

-----------------------------------------------------------------------------
(* Two invocations of add_to_history on the same METRICS_HISTORY_FILE, as   *)
(* two runs of the script started side by side.  Nothing in the code locks *)
(* the file, so the statements of the two interleave freely; each step     *)
(* below is one statement (or system call) of add_to_history.              *)

\* the documents the invocations are called with: those of the analysed
\* batches, with or without a completed row
CallDocuments ==
    {analysed[DefaultEntityTypes][rows] : rows \in HistoryInputs}

\* the file before the invocations: missing, or holding one earlier run
StoredBefore ==
    {MissingFile} \cup {ValidFile(<<history_record(d)>>) : d \in CallDocuments}

InitConcurrent ==
    /\ ENTITY_TYPES = DefaultEntityTypes
    /\ results = <<>>
    /\ metrics = NotComputed
    /\ history_file \in StoredBefore
    /\ writes = 0
    /\ outcome = "none"
    /\ appended = {}
    /\ history = NoHistory
    /\ comparison = NoComparison
    /\ pc = [p \in Procs |-> "load"]
    /\ call_metrics \in [Procs -> CallDocuments]
    /\ loaded_history = [p \in Procs |-> <<>>]
    /\ overlapped = FALSE

\* an invocation that has loaded the history and not yet returned
UnderWay(q) == pc[q] \in {"check", "open", "dump"}

\* where an invocation stands after its print
Ended(said) == IF said = "TypeError" THEN "raised" ELSE "done"

\* history = load_metrics_history()
Load(p) ==
    /\ pc[p] = "load"
    /\ LET loaded == load_metrics_history(history_file)
       IN  IF loaded.raised \/ ~loaded.list
           THEN /\ pc' = [pc EXCEPT ![p] = "raised"]
                /\ UNCHANGED loaded_history
           ELSE /\ pc' = [pc EXCEPT ![p] = "check"]
                /\ loaded_history' = [loaded_history EXCEPT ![p] = loaded.value]
    /\ overlapped' = (overlapped \/ \E q \in Procs \ {p} : UnderWay(q))
    /\ UNCHANGED <<ENTITY_TYPES, results, metrics, history_file, writes,
                   outcome, appended, history, comparison, call_metrics>>

\* existing_ids = ...; if history_record["run_id"] not in existing_ids:
\* history.append(history_record); else: print(... already in history)
CheckAndAppend(p) ==
    /\ pc[p] = "check"
    /\ LET rec == history_record(call_metrics[p])
       IN  IF ~already_in_history(loaded_history[p], rec)
           THEN /\ loaded_history' =
                      [loaded_history EXCEPT
                          ![p] = history_append(loaded_history[p], rec)]
                /\ pc' = [pc EXCEPT ![p] = "open"]
           ELSE /\ pc' = [pc EXCEPT
                              ![p] = Ended(print_outcome(rec, "already in history"))]
                /\ UNCHANGED loaded_history
    /\ UNCHANGED <<ENTITY_TYPES, results, metrics, history_file, writes,
                   outcome, appended, history, comparison, call_metrics,
                   overlapped>>

\* save_metrics_history: open(METRICS_HISTORY_FILE, "w") truncates the file;
\* until the document is written the file holds what json.load rejects
SaveOpen(p) ==
    /\ pc[p] = "open"
    /\ history_file' = CorruptFile
    /\ pc' = [pc EXCEPT ![p] = "dump"]
    /\ UNCHANGED <<ENTITY_TYPES, results, metrics, writes, outcome, appended,
                   history, comparison, call_metrics, loaded_history,
                   overlapped>>

\* save_metrics_history: json.dump and close write the document from offset
\* 0, then the print.  When another invocation wrote its document since this
\* one's open, a document of no more records can be the shorter text, and
\* the end of the other's text then stays behind it.
SaveDump(p) ==
    /\ pc[p] = "dump"
    /\ history_file' \in
          {save_metrics_history(loaded_history[p])} \cup
          (IF /\ history_file.state = "valid"
              /\ Len(loaded_history[p]) <= Len(history_file.records)
           THEN {CorruptFile} ELSE {})
    /\ writes' = writes + 1
    /\ pc' = [pc EXCEPT
                 ![p] = Ended(print_outcome(history_record(call_metrics[p]),
                                            "added"))]
    /\ UNCHANGED <<ENTITY_TYPES, results, metrics, outcome, appended, history,
                   comparison, call_metrics, loaded_history, overlapped>>

NextConcurrent ==
    \E p \in Procs : Load(p) \/ CheckAndAppend(p) \/ SaveOpen(p) \/ SaveDump(p)

SpecConcurrent == InitConcurrent /\ [][NextConcurrent]_vars

-----------------------------------------------------------------------------
(* Properties of two invocations sharing the file *)

\* both invocations have returned or raised
AllEnded == \A p \in Procs : pc[p] \in {"done", "raised"}

\* the run_id of the record an invocation adds
CallRunId(p) == history_record(call_metrics[p]).run_id

NoDuplicateRunId ==
    \A i, j \in DOMAIN history_file.records :
        history_file.records[i].run_id = history_file.records[j].run_id => i = j

\* C17 as stated: whatever the interleaving of the load, append and save
\* steps of two invocations, the final store is readable, holds a record
\* for the run_id of each invocation (one record when they share it) and
\* at most one record per run_id.
C17_NoRecordLostUnderInterleaving ==
    AllEnded =>
        /\ history_file.state = "valid"
        /\ \A p \in Procs : CallRunId(p) \in StoredIds
        /\ NoDuplicateRunId

\* C17 amended: when the two invocations run one after the other, the
\* final store holds a record for the run_id of each (one record when they
\* share it) and at most one record per run_id.  When their steps
\* interleave, a store that is readable still holds at most one record per
\* run_id and, at the end, the record of at least one of the invocations.
C17_SerialInvocationsKeepBothRecords ==
    /\ history_file.state = "valid" => NoDuplicateRunId
    /\ AllEnded =>
          /\ history_file.state \in {"valid", "corrupt"}
          /\ ~overlapped =>
                /\ history_file.state = "valid"
                /\ \A p \in Procs : CallRunId(p) \in StoredIds
          /\ history_file.state = "valid" =>
                \E p \in Procs : CallRunId(p) \in StoredIds

\* C17 witness: two invocations with distinct run_ids ran one after the
\* other on a missing file, both returned, and the store holds the two
\* records
C17_Witness ==
    /\ AllEnded
    /\ ~overlapped
    /\ \A p \in Procs : pc[p] = "done"
    /\ CallRunId("first") # CallRunId("second")
    /\ writes = 2
    /\ Len(history_file.records) = 2
    /\ StoredIds = {CallRunId(p) : p \in Procs}

-----------------------------------------------------------------------------
(* compare_prompt_versions.  What it prints is modelled by the data it      *)
(* prints: the version reported missing, or one row per compared metric    *)
(* with the two values, the change and the indicator (the fixed-width      *)
(* formatting of the numbers is left out).                                 *)

\* a run filter that keeps every record
all_runs(h, v) == h

\* runs_v = [h for h in history if h.get("prompt_version") == v]
runs_of(h, v) == SelectSeq(h, LAMBDA x : GetOpt(x, "prompt_version") = Some(Some(v)))

\* the order of the timestamp strings of the model under Python's str
\* comparison ("" is x.get("timestamp", "") of a record without the key)
TimestampRank ==
    [t \in {"", "2026-01-01T10:00:00", "2026-01-02T09:00:00+00:00",
            "2026-01-02T10:00:00", "2026-01-02T10:00:00+02:00"} |->
        CASE t = "" -> 0
          [] t = "2026-01-01T10:00:00" -> 1
          [] t = "2026-01-02T09:00:00+00:00" -> 2
          [] t = "2026-01-02T10:00:00" -> 3
          [] t = "2026-01-02T10:00:00+02:00" -> 4]

\* the key x.get("timestamp", "") of max: None when the record holds null
timestamp_key(x) == Get(x, "timestamp", Some(""))

\* max(runs, key=...) compares every run with another one when there are
\* several: a None key then raises TypeError
max_raises(runs) ==
    Len(runs) >= 2 /\ \E i \in DOMAIN runs : timestamp_key(runs[i]) = None

\* the first run, whatever its timestamp
first_of(runs) == runs[1]

\* max(runs, key=lambda x: x.get("timestamp", "")): the first run whose key
\* is maximal
RECURSIVE max_from(_, _, _)
max_from(runs, i, best) ==
    IF i > Len(runs) THEN best
    ELSE IF TimestampRank[timestamp_key(runs[i]).v]
                > TimestampRank[timestamp_key(best).v]
         THEN max_from(runs, i + 1, runs[i])
         ELSE max_from(runs, i + 1, best)

latest_of(runs) == max_from(runs, 2, runs[1])

\* metrics_to_compare: (key, higher_is_better)
metrics_to_compare ==
    <<[key |-> "entity_type_accuracy", higher_is_better |-> TRUE],
      [key |-> "title_keyword_overlap_avg", higher_is_better |-> TRUE],
      [key |-> "start_hour_accuracy", higher_is_better |-> TRUE],
      [key |-> "expected_calibration_error", higher_is_better |-> FALSE],
      [key |-> "avg_latency_ms", higher_is_better |-> FALSE]>>

\* the int 0 that latest.get(key, 0) gives for a missing key
IntZero == [some |-> TRUE, v |-> Zero, int |-> TRUE]

\* latest.get(key, 0): a float, None (a stored null) or the int 0
metric_value(rec, key) == Get(rec, key, IntZero)

\* isinstance(val, float)
is_float(val) == val # None /\ "int" \notin DOMAIN val

\* "if isinstance(val1, float) and val1 <= 1"
as_percentage(val1) == is_float(val1) /\ RLe(val1.v, One)

\* the body of the loop raises when it formats or subtracts a None
row_raises(val1, val2) == val1 = None \/ val2 = None

\* change: (val2 - val1) * 100 in the percentage branch, else val2 - val1
change_of(val1, val2) ==
    IF as_percentage(val1)
    THEN RMul(RSub(val2.v, val1.v), Frac(100, 1))
    ELSE RSub(val2.v, val1.v)

\* an indicator that reads every metric as higher-is-better
indicator_ignoring_direction(change, higher_is_better) ==
    IF RLt(Zero, change) THEN "improved"
    ELSE IF RLt(change, Zero) THEN "regressed" ELSE "unchanged"

\* the indicator printed for a change
indicator_of(change, higher_is_better) ==
    IF higher_is_better
    THEN IF RLt(Zero, change) THEN "improved"
         ELSE IF RLt(change, Zero) THEN "regressed" ELSE "unchanged"
    ELSE IF RLt(change, Zero) THEN "improved"
         ELSE IF RLt(Zero, change) THEN "regressed" ELSE "unchanged"

\* one iteration of "for key, label, higher_is_better in metrics_to_compare"
comparison_row(latest_v1, latest_v2, m) ==
    LET val1 == metric_value(latest_v1, m.key)
        val2 == metric_value(latest_v2, m.key)
        change == change_of(val1, val2)
    IN  [key |-> m.key, val1 |-> val1, val2 |-> val2,
         percentage |-> as_percentage(val1),
         change |-> change,
         indicator |-> indicator_of(change, m.higher_is_better)]

\* the rows printed by the loop: all of them, or those before the first one
\* that raises
RECURSIVE printed_rows(_, _, _)
printed_rows(latest_v1, latest_v2, i) ==
    IF i > Len(metrics_to_compare) THEN <<>>
    ELSE IF row_raises(metric_value(latest_v1, metrics_to_compare[i].key),
                       metric_value(latest_v2, metrics_to_compare[i].key))
    THEN <<>>
    ELSE <<comparison_row(latest_v1, latest_v2, metrics_to_compare[i])>>
            \o printed_rows(latest_v1, latest_v2, i + 1)

\* compare_prompt_versions(v1, v2, history)
compare_prompt_versions(v1, v2, h) ==
    LET runs_v1 == runs_of(h, v1)
        runs_v2 == runs_of(h, v2)
    IN  IF runs_v1 = <<>>
        THEN [v1 |-> v1, v2 |-> v2, status |-> "not found",
              missing |-> v1, rows |-> <<>>]
        ELSE IF runs_v2 = <<>>
        THEN [v1 |-> v1, v2 |-> v2, status |-> "not found",
              missing |-> v2, rows |-> <<>>]
        ELSE IF max_raises(runs_v1) \/ max_raises(runs_v2)
        THEN [v1 |-> v1, v2 |-> v2, status |-> "TypeError",
              missing |-> "", rows |-> <<>>]
        ELSE LET rows == printed_rows(latest_of(runs_v1), latest_of(runs_v2), 1)
             IN  [v1 |-> v1, v2 |-> v2,
                  status |-> IF Len(rows) = Len(metrics_to_compare)
                             THEN "compared" ELSE "TypeError",
                  missing |-> "", rows |-> rows]

-----------------------------------------------------------------------------
(* The comparator as a state machine: main() --compare loads the history    *)
(* and calls compare_prompt_versions once.                                 *)

\* longest history handed to the comparator
MaxHistory == 3

\* the compared metrics of three runs; a run without latency data has an
\* average latency of 0.0
MetricProfiles ==
    {[entity_type_accuracy |-> Some(Frac(1, 2)),
      title_keyword_overlap_avg |-> Some(Frac(1, 2)),
      start_hour_accuracy |-> Some(Frac(1, 2)),
      expected_calibration_error |-> Some(Frac(1, 4)),
      avg_latency_ms |-> Some(Frac(200, 1))],
     [entity_type_accuracy |-> Some(Frac(1, 1)),
      title_keyword_overlap_avg |-> Some(Frac(3, 4)),
      start_hour_accuracy |-> Some(Frac(0, 1)),
      expected_calibration_error |-> Some(Frac(1, 4)),
      avg_latency_ms |-> Some(Frac(1, 2))],
     [entity_type_accuracy |-> Some(Frac(0, 1)),
      title_keyword_overlap_avg |-> Some(Frac(1, 2)),
      start_hour_accuracy |-> Some(Frac(1, 1)),
      expected_calibration_error |-> Some(Frac(3, 4)),
      avg_latency_ms |-> Some(Frac(0, 1))]}

\* the record add_to_history stores for a batch without completed rows
NoCompletedRecord == history_record(no_completed_document(<<>>))

\* timestamps of the stored runs as the CSV gives them: the first is the
\* greater string and the earlier instant (10:00 at +02:00 is 08:00 UTC)
CompareTimestamps ==
    {"2026-01-02T10:00:00+02:00", "2026-01-02T09:00:00+00:00"}

\* records as add_to_history stores them, reduced to the fields the
\* comparator reads
CompareRecords ==
    {[prompt_version |-> Some(v), timestamp |-> Some(t),
      entity_type_accuracy |-> p.entity_type_accuracy,
      title_keyword_overlap_avg |-> p.title_keyword_overlap_avg,
      start_hour_accuracy |-> p.start_hour_accuracy,
      expected_calibration_error |-> p.expected_calibration_error,
      avg_latency_ms |-> p.avg_latency_ms] :
        v \in {"v1", "v2"}, t \in CompareTimestamps, p \in MetricProfiles}
    \cup {NoCompletedRecord}

\* the versions asked for on the command line
AskedVersions == {"v1", "v2", "v3"}

InitCompare ==
    /\ ENTITY_TYPES = DefaultEntityTypes
    /\ results = <<>>
    /\ metrics = NotComputed
    /\ history_file = MissingFile
    /\ writes = 0
    /\ outcome = "none"
    /\ appended = {}
    /\ history \in SeqsUpTo(CompareRecords, MaxHistory)
    /\ comparison = NoComparison
    /\ NoCalls

\* compare_prompt_versions(args.compare[0], args.compare[1], history)
Compare ==
    /\ comparison = NoComparison
    /\ \E v1 \in AskedVersions, v2 \in AskedVersions :
          comparison' = compare_prompt_versions(v1, v2, history)
    /\ UNCHANGED <<ENTITY_TYPES, results, metrics, history_file, writes,
                   outcome, appended, history, procvars>>

NextCompare == Compare

SpecCompare == InitCompare /\ [][NextCompare]_vars

-----------------------------------------------------------------------------
(* Properties of the comparator *)

Compared == comparison.status = "compared"

HasRuns(v) ==
    \E i \in DOMAIN history :
        /\ "prompt_version" \in DOMAIN history[i]
        /\ history[i]["prompt_version"] = Some(v)

\* C4: the delta of every compared metric is v2's value minus v1's value in
\* the metric's own unit, and the deltas of compare(v2, v1, H) are the exact
\* negations of those of compare(v1, v2, H).
C4_DeltaNativeAndAntisymmetric ==
    Compared =>
        LET back == compare_prompt_versions(comparison.v2, comparison.v1, history)
        IN  \A i \in DOMAIN comparison.rows :
                LET row == comparison.rows[i]
                IN  /\ row.change = RSub(row.val2.v, row.val1.v)
                    /\ back.rows[i].change = RSub(Zero, row.change)

\* C8: when either version has no record in the history, nothing is
\* compared and the missing version is named (v1 when both are missing);
\* all five metrics are compared only when both versions have a record.
C8_MissingVersionReported ==
    comparison # NoComparison =>
        LET has1 == HasRuns(comparison.v1)
            has2 == HasRuns(comparison.v2)
        IN  /\ (~has1 \/ ~has2) =>
                  /\ comparison.status = "not found"
                  /\ comparison.rows = <<>>
                  /\ comparison.missing =
                        IF ~has1 THEN comparison.v1 ELSE comparison.v2
            /\ Compared =>
                  /\ has1 /\ has2
                  /\ [i \in DOMAIN comparison.rows |-> comparison.rows[i].key]
                        = [i \in DOMAIN metrics_to_compare |->
                              metrics_to_compare[i].key]
            /\ comparison.rows # <<>> => has1 /\ has2

\* C8 witness: neither version has a record in a non-empty history, and v1 is
\* the one reported
C8_Witness ==
    /\ comparison.status = "not found"
    /\ Len(history) >= 2
    /\ ~HasRuns(comparison.v1)
    /\ ~HasRuns(comparison.v2)
    /\ comparison.v1 # comparison.v2
    /\ comparison.missing = comparison.v1

\* the records of the history stored under version v
VersionIdx(v) ==
    {i \in DOMAIN history :
        /\ "prompt_version" \in DOMAIN history[i]
        /\ history[i]["prompt_version"] = Some(v)}

\* the order of Python's str comparison on the timestamps of the stored runs
StrLe(s, t) == TimestampRank[s] <= TimestampRank[t]

\* every printed value of the given column is the one record rec holds
RowsShow(rec, col) ==
    \A i \in DOMAIN comparison.rows :
        comparison.rows[i][col] = rec[comparison.rows[i].key]

\* record i is of version v and no record of version v has a greater
\* timestamp string
MaximalOfVersion(i, v) ==
    /\ i \in VersionIdx(v)
    /\ \A j \in VersionIdx(v) :
          StrLe(history[j]["timestamp"].v, history[i]["timestamp"].v)

HigherIsBetter ==
    {"entity_type_accuracy", "title_keyword_overlap_avg", "start_hour_accuracy"}
\* the compared metrics for which a lower value is better
LowerIsBetter == {"expected_calibration_error", "avg_latency_ms"}

\* C12: for each compared metric the verdict follows the sign of
\* delta = v2 - v1 and the metric's direction: for the higher-is-better
\* metrics delta > 0 is improved and delta < 0 regressed, for the
\* lower-is-better ones delta < 0 is improved and delta > 0 regressed, and
\* delta = 0 is unchanged for all.
C12_VerdictFromSignAndDirection ==
    Compared =>
        \A i \in DOMAIN comparison.rows :
            LET row == comparison.rows[i]
                delta == RSub(row.val2.v, row.val1.v)
            IN  /\ row.key \in HigherIsBetter \cup LowerIsBetter
                /\ delta = Zero => row.indicator = "unchanged"
                /\ (row.key \in HigherIsBetter /\ RLt(Zero, delta))
                      => row.indicator = "improved"
                /\ (row.key \in HigherIsBetter /\ RLt(delta, Zero))
                      => row.indicator = "regressed"
                /\ (row.key \in LowerIsBetter /\ RLt(delta, Zero))
                      => row.indicator = "improved"
                /\ (row.key \in LowerIsBetter /\ RLt(Zero, delta))
                      => row.indicator = "regressed"

\* C12 witness: one comparison shows an improved and a regressed
\* higher-is-better metric, an unchanged calibration error and an improved
\* (lower) latency
C12_Witness ==
    /\ Compared
    /\ comparison.rows[1].indicator = "improved"
    /\ comparison.rows[3].indicator = "regressed"
    /\ comparison.rows[4].indicator = "unchanged"
    /\ comparison.rows[5].indicator = "improved"
    /\ RLt(comparison.rows[5].val2.v, comparison.rows[5].val1.v)

=============================================================================
